---- MODULE Spec2Model ----
(***************************************************************************)
(* One sync cycle of the Vikunja -> Google Calendar reconciler (run() in   *)
(* src/index.js, the current revision of sync.js).  The task source and    *)
(* the calendar sink are modelled by their contents; every remote call of  *)
(* the cycle is recorded, in order, in the call log.                       *)
(***************************************************************************)
EXTENDS Integers, Sequences, FiniteSets, TLC

\* ------------------------------------------------------------------ bounds
MaxTasks == 2       \* length of the task list the source returns
MaxEvents == 2      \* events in the sink before the first cycle
MaxFails == 1       \* injected remote failures in one behaviour
MaxCycles == 2      \* sync cycles run in succession
MaxMissing == 1     \* options of the configuration left unset at startup
MaxOffset == 1      \* hours the time zone of the process is off UTC, either way
MaxDay == 2         \* last day a task given to buildGoogleEvent alone is due
PageSize == 1       \* tasks on one page of the source's task listing

\* ------------------------------------------------------------ program constants
DelayMs == 200      \* delay(200) after a mutating call
GoneCode == 410     \* error.code the delete handlers swallow

\* ------------------------------------------------------------------ universes
Titles == {"A", "B"}
ErrorCodes == {404, 410, 500}
NoProject == "none"

\* ------------------------------------------------------------------ configuration
\* process.env after dotenv: the options that are set
VARIABLE config

\* the time zone of the process, in hours east of UTC: dayjs() without .utc
\* computes in it
VARIABLE tz

\* the payload buildGoogleEvent returned for the task it was last applied to alone
VARIABLE builtEvent

Options ==
    {"VIKUNJA_API_URL", "VIKUNJA_API_TOKEN", "VIKUNJA_FRONTEND_URL",
     "GOOGLE_APPLICATION_CREDENTIALS", "CALENDAR_PREFIX", "GOOGLE_CALENDAR_SHARE_WITH_EMAIL"}

\* the options the validation of run() tests
Validated ==
    {"VIKUNJA_API_TOKEN", "GOOGLE_APPLICATION_CREDENTIALS",
     "GOOGLE_CALENDAR_SHARE_WITH_EMAIL", "VIKUNJA_FRONTEND_URL"}

\* `${CALENDAR_PREFIX} ${project.title}`; an unset prefix is formatted "undefined"
CalendarName(title) ==
    IF "CALENDAR_PREFIX" \in config
    THEN CASE title = "A" -> "P A"
           [] title = "B" -> "P B"
           [] OTHER -> "P ?"
    ELSE CASE title = "A" -> "undefined A"
           [] title = "B" -> "undefined B"
           [] OTHER -> "undefined ?"

\* cal.summary.startsWith(CALENDAR_PREFIX); startsWith(undefined) searches for
\* "undefined"
StartsWithPrefix(summary) ==
    IF "CALENDAR_PREFIX" \in config
    THEN summary \in {"P A", "P B", "P ?"}
    ELSE summary \in {"undefined A", "undefined B", "undefined ?"}

\* String(task.id)
String(n) ==
    CASE n = 1 -> "1"
      [] n = 2 -> "2"
      [] n = 3 -> "3"
      [] OTHER -> "0"

\* ------------------------------------------------------------------ sequences
Range(s) == {s[k] : k \in 1..Len(s)}

Min(S) == CHOOSE x \in S : \A y \in S : x <= y

\* Array.prototype.find, by position: the index of the first element among the
\* positions S, 0 when there is none (undefined)
FindIndex(S) == IF S = {} THEN 0 ELSE Min(S)

\* googleCalendars.find(cal => cal.summary === summary), by position
FindCalendar(gc, summary) ==
    FindIndex({k \in 1..Len(gc) : gc[k].summary = summary})

\* ------------------------------------------------------------------ JS Map
\* A Map is a sequence of [key, val] in insertion order; set() on a present key
\* replaces the value in place.
MapHas(m, k) == \E j \in 1..Len(m) : m[j].key = k

\* position of key k, 0 when absent (get() returns undefined)
MapIndex(m, k) ==
    IF MapHas(m, k) THEN CHOOSE j \in 1..Len(m) : m[j].key = k ELSE 0

MapSet(m, k, v) ==
    IF MapHas(m, k)
    THEN [j \in 1..Len(m) |-> IF m[j].key = k THEN [key |-> k, val |-> v] ELSE m[j]]
    ELSE Append(m, [key |-> k, val |-> v])

\* ------------------------------------------------------------------ payload
\* `${task.description || ''}\n\nView in Vikunja: ${viewLink}`: the text and the
\* two numbers the deep link is built from
Description(task) ==
    [text |-> IF task.description = "null" THEN "" ELSE task.description,
     link |-> <<task.project_id, task.id>>]

\* dayjs(instant).format('YYYY-MM-DD'): the calendar day, in the time zone of the
\* process, of an instant given in hours since the epoch
FormatDate(instant) == (instant + tz) \div 24

\* dayjs(instant).add(1, 'day').format('YYYY-MM-DD'): the next calendar day
FormatNextDate(instant) == FormatDate(instant) + 1

\* the all-day span without its exclusive end
buildGoogleEventSameDay(task) ==
    [summary |-> task.title,
     description |-> Description(task),
     start |-> FormatDate(task.due_date),
     end |-> FormatDate(task.due_date),
     transparency |-> "opaque",
     vikunjaTaskId |-> String(task.id)]

buildGoogleEvent(task) ==
    [summary |-> task.title,
     description |-> Description(task),
     start |-> FormatDate(task.due_date),
     end |-> FormatNextDate(task.due_date),
     transparency |-> "opaque",
     vikunjaTaskId |-> String(task.id)]

\* ------------------------------------------------------------------ call log
\* One remote call: what was called, in which phase of the cycle, for which
\* calendar name or task key, on which calendar or event id, the error code it
\* threw (0: it returned) and whether console.error reported it.
Entry(op, phase, key, id, code, logged) ==
    [op |-> op, phase |-> phase, key |-> key, id |-> id, code |-> code, logged |-> logged]

\* await delay(200)
Delay == Entry("delay", "pace", "", DelayMs, 0, FALSE)

MutatingOps == {"createCalendar", "aclInsert", "createEvent", "updateEvent", "deleteEvent"}

\* ------------------------------------------------------------------ the sink
\* The cycle's working state st: the sink (cals, events, nextId, now), the
\* in-memory list googleCalendars (gc), the Map allGoogleEvents (idx), the call
\* log, the number n of remote calls made and the number inj of them that were
\* made to fail.  F is the set of call numbers that fail, code the error code.
Fails(st, F) == (st.n + 1) \in F

Called(st, entries, injected) ==
    [st EXCEPT !.n = @ + 1,
               !.inj = @ + (IF injected THEN 1 ELSE 0),
               !.log = @ \o entries]

\* a failed creation answered with a calendar that has no id, and pushed
createGoogleCalendarPushingFailure(st, projectName, F) ==
    IF Fails(st, F)
    THEN Called([st EXCEPT !.gc = Append(@, [id |-> 0, summary |-> CalendarName(projectName)])],
                <<Entry("createCalendar", "provision", CalendarName(projectName), 0, 500,
                        TRUE)>>, TRUE)
    ELSE Called([st EXCEPT !.cals = Append(@, [id |-> st.nextId,
                                                summary |-> CalendarName(projectName),
                                                shared |-> FALSE]),
                           !.nextId = @ + 1,
                           !.gc = Append(@, [id |-> st.nextId,
                                             summary |-> CalendarName(projectName)])],
                <<Entry("createCalendar", "provision", CalendarName(projectName), st.nextId, 0,
                        FALSE), Delay>>, FALSE)

\* the calendar created and not pushed to googleCalendars
createGoogleCalendarNotPushed(st, projectName, F) ==
    IF Fails(st, F)
    THEN Called(st, <<Entry("createCalendar", "provision", CalendarName(projectName), 0, 500,
                            TRUE)>>, TRUE)
    ELSE Called([st EXCEPT !.cals = Append(@, [id |-> st.nextId,
                                                summary |-> CalendarName(projectName),
                                                shared |-> FALSE]),
                           !.nextId = @ + 1],
                <<Entry("createCalendar", "provision", CalendarName(projectName), st.nextId, 0,
                        FALSE), Delay>>, FALSE)

\* calendar.calendars.insert inside createGoogleCalendar, and the push and the
\* delay that follow a non-null result
createGoogleCalendar(st, projectName, F) ==
    LET calendarName == CalendarName(projectName) IN
    IF Fails(st, F)
    THEN Called(st, <<Entry("createCalendar", "provision", calendarName, 0, 500, TRUE)>>, TRUE)
    ELSE LET newCal == [id |-> st.nextId, summary |-> calendarName] IN
         Called([st EXCEPT !.cals = Append(@, [id |-> st.nextId, summary |-> calendarName,
                                                shared |-> FALSE]),
                           !.nextId = @ + 1,
                           !.gc = Append(@, newCal)],
                <<Entry("createCalendar", "provision", calendarName, st.nextId, 0, FALSE),
                  Delay>>, FALSE)

\* the events of the calendar fetched as soon as its rules are read
ensureCalendarIsSharedThenListed(st, cal, F) ==
    Called(st, <<Entry("aclList", "share", cal.summary, cal.id, 0, FALSE),
                 Entry("listEvents", "index", cal.summary, cal.id, 0, FALSE)>>, FALSE)

\* the rules read and nothing granted
ensureCalendarIsSharedReadOnly(st, cal, F) ==
    Called(st, <<Entry("aclList", "share", cal.summary, cal.id, 0, FALSE)>>, FALSE)

\* calendar.acl.list, then calendar.acl.insert when no rule names the principal
ensureCalendarIsShared(st, cal, F) ==
    IF Fails(st, F)
    THEN Called(st, <<Entry("aclList", "share", cal.summary, cal.id, 500, TRUE)>>, TRUE)
    ELSE LET listed == Called(st, <<Entry("aclList", "share", cal.summary, cal.id, 0, FALSE)>>,
                              FALSE)
             isAlreadyShared == \E c \in Range(st.cals) : c.id = cal.id /\ c.shared
         IN IF isAlreadyShared THEN listed
            ELSE IF Fails(listed, F)
            THEN Called(listed, <<Entry("aclInsert", "share", cal.summary, cal.id, 500, TRUE)>>,
                        TRUE)
            ELSE Called([listed EXCEPT !.cals = [j \in 1..Len(@) |->
                                           IF @[j].id = cal.id
                                           THEN [@[j] EXCEPT !.shared = TRUE] ELSE @[j]]],
                        <<Entry("aclInsert", "share", cal.summary, cal.id, 0, FALSE)>>, FALSE)

\* calendar.events.list inside getGoogleEvents: the events of one calendar, in
\* the sink's order, [] when the call fails
EventsOf(st, calendarId) == SelectSeq(st.events, LAMBDA e : e.calendarId = calendarId)

\* calendar.events.delete and the delay inside the same try block.  A failing call
\* is answered 404 or 410 when somebody else removed the event since it was listed,
\* 500 when the sink could not serve the call and the event stays; deleting an
\* event this cycle deleted before is answered 410.  Only 410 is not reported.
DeleteEvent(st, phase, key, eventId, F, code) ==
    IF Fails(st, F)
    THEN Called([st EXCEPT !.events = IF code \in {404, 410}
                                      THEN SelectSeq(@, LAMBDA e : e.id # eventId) ELSE @],
                <<Entry("deleteEvent", phase, key, eventId, code, code # GoneCode)>>, TRUE)
    ELSE IF \A e \in Range(st.events) : e.id # eventId
    THEN Called(st, <<Entry("deleteEvent", phase, key, eventId, GoneCode, FALSE)>>, FALSE)
    ELSE Called([st EXCEPT !.events = SelectSeq(@, LAMBDA e : e.id # eventId)],
                <<Entry("deleteEvent", phase, key, eventId, 0, FALSE), Delay>>, FALSE)

\* calendar.events.update and the delay inside the same try block
UpdateEvent(st, key, eventId, eventPayload, F) ==
    IF Fails(st, F)
    THEN Called(st, <<Entry("updateEvent", "diff", key, eventId, 500, TRUE)>>, TRUE)
    ELSE IF \A e \in Range(st.events) : e.id # eventId
    THEN Called(st, <<Entry("updateEvent", "diff", key, eventId, 404, TRUE)>>, FALSE)
    ELSE Called([st EXCEPT !.events = [j \in 1..Len(@) |->
                                 IF @[j].id = eventId
                                 THEN [id |-> eventId, calendarId |-> @[j].calendarId,
                                       updated |-> st.now,
                                       summary |-> eventPayload.summary,
                                       description |-> eventPayload.description,
                                       start |-> eventPayload.start,
                                       end |-> eventPayload.end,
                                       transparency |-> eventPayload.transparency,
                                       vikunjaTaskId |-> eventPayload.vikunjaTaskId]
                                 ELSE @[j]]],
                <<Entry("updateEvent", "diff", key, eventId, 0, FALSE), Delay>>, FALSE)

\* calendar.events.insert and the delay inside the same try block
InsertEvent(st, key, calendarId, eventPayload, F) ==
    IF Fails(st, F)
    THEN Called(st, <<Entry("createEvent", "diff", key, calendarId, 500, TRUE)>>, TRUE)
    ELSE Called([st EXCEPT !.events = Append(@, [id |-> st.nextId, calendarId |-> calendarId,
                                                 updated |-> st.now,
                                                 summary |-> eventPayload.summary,
                                                 description |-> eventPayload.description,
                                                 start |-> eventPayload.start,
                                                 end |-> eventPayload.end,
                                                 transparency |-> eventPayload.transparency,
                                                 vikunjaTaskId |-> eventPayload.vikunjaTaskId]),
                          !.nextId = @ + 1],
                <<Entry("createEvent", "diff", key, calendarId, 0, FALSE), Delay>>, FALSE)

\* ------------------------------------------------------------------ the phases
\* the loop, and after it the managed calendars of no listed project removed
RECURSIVE ReconcileCalendarsPruning(_, _, _, _)
ReconcileCalendarsPruning(st, projects, k, F) ==
    IF k > Len(projects)
    THEN [st EXCEPT !.cals = SelectSeq(@, LAMBDA c :
                                 \/ ~StartsWithPrefix(c.summary)
                                 \/ \E j \in 1..Len(projects) :
                                        CalendarName(projects[j].title) = c.summary),
                    !.gc = SelectSeq(@, LAMBDA c :
                               \E j \in 1..Len(projects) :
                                   CalendarName(projects[j].title) = c.summary)]
    ELSE IF FindCalendar(st.gc, CalendarName(projects[k].title)) # 0
    THEN ReconcileCalendarsPruning(st, projects, k + 1, F)
    ELSE ReconcileCalendarsPruning(createGoogleCalendar(st, projects[k].title, F),
                                   projects, k + 1, F)

\* Step 2, reconcile calendars: the loop over vikunjaProjects from project k on
RECURSIVE ReconcileCalendars(_, _, _, _)
ReconcileCalendars(st, projects, k, F) ==
    IF k > Len(projects) THEN st
    ELSE LET expectedCalName == CalendarName(projects[k].title)
             gCal == FindCalendar(st.gc, expectedCalName)
         IN IF gCal # 0
            THEN ReconcileCalendars(st, projects, k + 1, F)
            ELSE ReconcileCalendars(createGoogleCalendar(st, projects[k].title, F),
                                    projects, k + 1, F)

\* Verifying calendar permissions: the loop over googleCalendars from entry k on
RECURSIVE VerifyPermissions(_, _, _)
VerifyPermissions(st, k, F) ==
    IF k > Len(st.gc) THEN st
    ELSE LET shared == ensureCalendarIsShared(st, st.gc[k], F)
         IN VerifyPermissions([shared EXCEPT !.log = Append(@, Delay)], k + 1, F)

\* a forEach that registers every event listed, with or without an identifier
RECURSIVE IndexEventsAny(_, _, _, _)
IndexEventsAny(idx, events, j, calendarId) ==
    IF j > Len(events) THEN idx
    ELSE IndexEventsAny(MapSet(idx, events[j].vikunjaTaskId,
                               [events[j] EXCEPT !.calendarId = calendarId]),
                        events, j + 1, calendarId)

\* events.forEach: register every event carrying a task identifier
RECURSIVE IndexEvents(_, _, _, _)
IndexEvents(idx, events, j, calendarId) ==
    IF j > Len(events) THEN idx
    ELSE LET vikunjaId == events[j].vikunjaTaskId
         IN IndexEvents(IF vikunjaId # ""
                        THEN MapSet(idx, vikunjaId, [events[j] EXCEPT !.calendarId = calendarId])
                        ELSE idx,
                        events, j + 1, calendarId)

\* Step 3, first loop: list the events of every calendar of googleCalendars
RECURSIVE ListAllEvents(_, _, _)
ListAllEvents(st, k, F) ==
    IF k > Len(st.gc) THEN st
    ELSE LET cal == st.gc[k]
             failed == Fails(st, F)
             events == IF failed THEN << >> ELSE EventsOf(st, cal.id)
             listed == Called(st, <<Entry("listEvents", "index", cal.summary, cal.id,
                                          IF failed THEN 500 ELSE 0, failed), Delay>>, failed)
         IN ListAllEvents([listed EXCEPT !.idx = IndexEvents(@, events, 1, cal.id)], k + 1, F)

\* new Map(vikunjaProjects.map(p => [p.id, p])).get(id): the title of the last
\* project listed with that id, NoProject when there is none
ProjectMapGet(projects, id) ==
    LET hits == {k \in 1..Len(projects) : projects[k].id = id}
    IN IF hits = {} THEN NoProject
       ELSE projects[CHOOSE k \in hits : \A h \in hits : h <= k].title

\* task.project ? task.project : projectMap.get(task.project_id)
ResolveProject(task, projects) ==
    IF task.project # NoProject THEN task.project ELSE ProjectMapGet(projects, task.project_id)

\* find() falling back on the first calendar
TargetCalendarOrFirst(gc, title) ==
    IF FindCalendar(gc, CalendarName(title)) # 0
    THEN FindCalendar(gc, CalendarName(title))
    ELSE IF Len(gc) > 0 THEN 1 ELSE 0

\* googleCalendars.find(cal => cal.summary === projectCalName), by position
TargetCalendar(gc, title) ==
    FindCalendar(gc, CalendarName(title))

\* isSame() or isAfter()
IsSameOrAfter(a, b) == a >= b

\* taskUpdated.isAfter(eventUpdated)
IsAfter(a, b) == a > b

\* the body with staleness tested before the calendar: a stale event is updated
\* where it is
SyncTaskUpdateFirst(st, task, projects, F, code) ==
    LET taskIdStr == String(task.id)
        found == MapIndex(st.idx, taskIdStr)
        project == ResolveProject(task, projects)
        target == IF project = NoProject THEN 0 ELSE TargetCalendar(st.gc, project)
    IN IF project = NoProject \/ target = 0 THEN st
       ELSE IF found = 0
       THEN InsertEvent(st, taskIdStr, st.gc[target].id, buildGoogleEvent(task), F)
       ELSE IF IsAfter(task.updated_at, st.idx[found].val.updated)
               \/ st.idx[found].val.transparency # "opaque"
       THEN UpdateEvent(st, taskIdStr, st.idx[found].val.id, buildGoogleEvent(task), F)
       ELSE IF st.idx[found].val.calendarId # st.gc[target].id
       THEN InsertEvent(DeleteEvent(st, "diff", taskIdStr, st.idx[found].val.id, F, code),
                        taskIdStr, st.gc[target].id, buildGoogleEvent(task), F)
       ELSE st

\* The body of the loop over uncompletedVikunjaTasks for one task
SyncTask(st, task, projects, F, code) ==
    LET taskIdStr == String(task.id)
        found == MapIndex(st.idx, taskIdStr)
        project == ResolveProject(task, projects)
        target == IF project = NoProject THEN 0 ELSE TargetCalendar(st.gc, project)
    IN IF project = NoProject \/ target = 0 THEN st
       ELSE LET targetGCal == st.gc[target]
                eventPayload == buildGoogleEvent(task)
            IN IF found = 0
               THEN InsertEvent(st, taskIdStr, targetGCal.id, eventPayload, F)
               ELSE LET existingGEvent == st.idx[found].val
                        needsMove == existingGEvent.calendarId # targetGCal.id
                    IN IF needsMove
                       THEN InsertEvent(DeleteEvent(st, "diff", taskIdStr, existingGEvent.id,
                                                    F, code),
                                        taskIdStr, targetGCal.id, eventPayload, F)
                       ELSE IF IsAfter(task.updated_at, existingGEvent.updated)
                               \/ existingGEvent.transparency # "opaque"
                       THEN UpdateEvent(st, taskIdStr, existingGEvent.id, eventPayload, F)
                       ELSE st

\* the loop left at the first call that throws
RECURSIVE SyncTasksUntilError(_, _, _, _, _, _)
SyncTasksUntilError(st, tasks, projects, k, F, code) ==
    IF k > Len(tasks) \/ \E j \in 1..Len(st.log) : st.log[j].phase = "diff" /\ st.log[j].code # 0
    THEN st
    ELSE SyncTasksUntilError(SyncTask(st, tasks[k], projects, F, code), tasks, projects,
                             k + 1, F, code)

\* Step 3, second loop: every uncompleted task from position k on
RECURSIVE SyncTasks(_, _, _, _, _, _)
SyncTasks(st, tasks, projects, k, F, code) ==
    IF k > Len(tasks) THEN st
    ELSE SyncTasks(SyncTask(st, tasks[k], projects, F, code), tasks, projects, k + 1, F, code)

\* an empty task list taken for a failed fetch: every key counts as present
TaskMapHasOrEmpty(tasks, key) ==
    Len(tasks) = 0 \/ \E k \in 1..Len(tasks) : String(tasks[k].id) = key

\* new Map(uncompletedVikunjaTasks.map(task => [String(task.id), task])).has(key)
TaskMapHas(tasks, key) == \E k \in 1..Len(tasks) : String(tasks[k].id) = key

\* the loop without the test of the task map: every entry is deleted
RECURSIVE CleanUpAll(_, _, _, _, _)
CleanUpAll(st, tasks, j, F, code) ==
    IF j > Len(st.idx) THEN st
    ELSE CleanUpAll(DeleteEvent(st, "cleanup", st.idx[j].key, st.idx[j].val.id, F, code),
                    tasks, j + 1, F, code)

\* Step 4, clean up: the loop over allGoogleEvents.entries() from entry j on
RECURSIVE CleanUp(_, _, _, _, _)
CleanUp(st, tasks, j, F, code) ==
    IF j > Len(st.idx) THEN st
    ELSE IF TaskMapHas(tasks, st.idx[j].key)
    THEN CleanUp(st, tasks, j + 1, F, code)
    ELSE CleanUp(DeleteEvent(st, "cleanup", st.idx[j].key, st.idx[j].val.id, F, code),
                 tasks, j + 1, F, code)

\* ------------------------------------------------------------------ state
VARIABLES
    vProjects,        \* task source: the projects it lists
    vTasks,           \* task source: the tasks it lists, in enumeration order
    gCalendars,       \* sink: calendarList, [id, summary, shared]
    gEvents,          \* sink: the live events of all calendars
    nextId,           \* sink: the next calendar or event id it assigns
    now,              \* the clock events are stamped with
    pc,               \* position of run() in the cycle
    vikunjaProjects,  \* run(): result of getVikunjaProjects()
    vikunjaTasks,     \* run(): result of getVikunjaTasks()
    googleCalendars,  \* run(): the in-memory list of managed calendars
    allGoogleEvents,  \* run(): Map task id string -> event
    calls,            \* the remote calls and delays of this cycle, in order
    failsLeft,        \* failures still to be injected
    cycle,            \* number of the running cycle
    events0,          \* gEvents when this cycle started
    cals0,            \* gCalendars when this cycle started
    nextId0,          \* nextId when this cycle started
    prevCalls         \* calls of the previous cycle

vars == <<config, tz, builtEvent, vProjects, vTasks, gCalendars, gEvents, nextId, now, pc, vikunjaProjects,
          vikunjaTasks, googleCalendars, allGoogleEvents, calls, failsLeft, cycle,
          events0, cals0, nextId0, prevCalls>>

source == <<vProjects, vTasks>>
history == <<cycle, events0, cals0, nextId0, prevCalls>>

\* ------------------------------------------------------------------ initial states
Project(id, title) == [id |-> id, title |-> title]

\* a task due at 00:00 UTC of the day due_day, without a due date when that is 0
Task(id, project_id, project, updated_at, done, due_day) ==
    [id |-> id, title |-> IF id = 1 THEN "t1" ELSE "t2", description |-> "null",
     due_date |-> 24 * due_day, done |-> done, project_id |-> project_id,
     project |-> project, updated_at |-> updated_at]

Calendar(id, summary, shared) == [id |-> id, summary |-> summary, shared |-> shared]

Event(id, calendarId, vikunjaTaskId, updated, transparency, summary, link) ==
    [id |-> id, calendarId |-> calendarId, updated |-> updated, summary |-> summary,
     description |-> [text |-> "", link |-> link], start |-> 1, end |-> 2,
     transparency |-> transparency, vikunjaTaskId |-> vikunjaTaskId]

ProjectLists ==
    {<< >>, <<Project(1, "A")>>, <<Project(1, "A"), Project(2, "B")>>,
     <<Project(1, "A"), Project(2, "A")>>}

TaskUniverse ==
    {Task(1, 1, NoProject, 1, FALSE, 1), Task(1, 1, NoProject, 2, FALSE, 1),
     Task(1, 2, "B", 1, FALSE, 1), Task(1, 1, NoProject, 1, TRUE, 1),
     Task(1, 1, NoProject, 1, FALSE, 0), Task(2, 2, NoProject, 1, FALSE, 1)}

SeqsUpTo(S, n) == UNION {[1..m -> S] : m \in 0..n}

\* the source lists a task once, or the same task again on a later page
TaskLists ==
    {ts \in SeqsUpTo(TaskUniverse, MaxTasks) :
        \A a, b \in 1..Len(ts) : ts[a].id = ts[b].id => ts[a] = ts[b]}

CalendarLists ==
    {<< >>, <<Calendar(1, "P A", TRUE)>>,
     <<Calendar(1, "P A", TRUE), Calendar(2, "P B", TRUE)>>,
     <<Calendar(1, "P A", FALSE), Calendar(2, "P B", TRUE), Calendar(3, "X", FALSE)>>}

\* what an event of the sink may look like before the first cycle, less its id
EventUniverse ==
    {Event(0, 1, "1", 2, "opaque", "t1", <<1, 1>>),
     Event(0, 1, "1", 1, "opaque", "old", <<1, 1>>),
     Event(0, 1, "1", 2, "transparent", "t1", <<1, 1>>),
     Event(0, 2, "1", 2, "opaque", "t1", <<2, 1>>),
     Event(0, 2, "2", 2, "opaque", "t2", <<2, 2>>),
     Event(0, 1, "", 2, "opaque", "own", <<0, 0>>),
     Event(0, 3, "1", 2, "opaque", "t1", <<1, 1>>)}

EventLists(cals) ==
    {[j \in 1..Len(es) |-> [es[j] EXCEPT !.id = 10 + j]] :
        es \in {x \in SeqsUpTo(EventUniverse, MaxEvents) :
                  \A j \in 1..Len(x) : \E c \in Range(cals) : c.id = x[j].calendarId}}

\* the source and the sink as a cycle may find them, run() not yet entered, in a
\* process that runs in UTC
World ==
    /\ tz = 0
    /\ builtEvent = << >>
    /\ vProjects \in ProjectLists
    /\ vTasks \in TaskLists
    /\ gCalendars \in CalendarLists
    /\ gEvents \in EventLists(gCalendars)
    /\ nextId = 21
    /\ now = 2
    /\ vikunjaProjects = << >>
    /\ vikunjaTasks = << >>
    /\ googleCalendars = << >>
    /\ allGoogleEvents = << >>
    /\ calls = << >>
    /\ failsLeft = MaxFails
    /\ cycle = 1
    /\ events0 = gEvents
    /\ cals0 = gCalendars
    /\ nextId0 = nextId
    /\ prevCalls = << >>

\* a complete configuration: the validation passed and the cycle is about to start
Init ==
    /\ config = Options
    /\ pc = "start"
    /\ World

\* the configurations the process may be started with
Configs == {c \in SUBSET Options : Cardinality(Options \ c) <= MaxMissing}

\* the process as it is started
InitBoot ==
    /\ config \in Configs
    /\ pc = "boot"
    /\ World

\* ------------------------------------------------------------------ actions
\* the working state of the cycle, with the call counter of a phase at zero
Cur ==
    [cals |-> gCalendars, events |-> gEvents, nextId |-> nextId, now |-> now,
     gc |-> googleCalendars, idx |-> allGoogleEvents, log |-> calls, n |-> 0, inj |-> 0]

\* which of the next K calls fail: as many as are still to be injected
FailSets(K) == {F \in SUBSET (1..K) : Cardinality(F) <= failsLeft}

Apply(st) ==
    /\ gCalendars' = st.cals
    /\ gEvents' = st.events
    /\ nextId' = st.nextId
    /\ googleCalendars' = st.gc
    /\ allGoogleEvents' = st.idx
    /\ calls' = st.log
    /\ failsLeft' = failsLeft - st.inj

\* the filter that lets every task pass
HasAnyDueDate(task) == TRUE

\* response.data.filter(task => task.due_date) / allTasks.filter(...)
HasDueDate(task) == task.due_date # 0

\* the list without the filter
AllTasks(tasks) == tasks

\* vikunjaTasks.filter(task => !task.done)
Uncompleted(tasks) == SelectSeq(tasks, LAMBDA task : ~task.done)

\* response.data.items.filter(cal => cal.summary.startsWith(CALENDAR_PREFIX))
ManagedCalendars(cals) ==
    LET managed == SelectSeq(cals, LAMBDA cal : StartsWithPrefix(cal.summary))
    IN [j \in 1..Len(managed) |-> [id |-> managed[j].id, summary |-> managed[j].summary]]

ReadEntry(op, failed) == Entry(op, "fetch", "", 0, IF failed THEN 500 ELSE 0, failed)

\* the request for one page of the task listing
PageEntry(page, failed) ==
    Entry("listTasks", "fetch", "", page, IF failed THEN 500 ELSE 0, failed)

\* `${VIKUNJA_API_URL}/...` is no address when the URL is unset: axios.get throws
Unreachable == "VIKUNJA_API_URL" \notin config

\* getVikunjaProjects(): response.data, [] when the request throws
getVikunjaProjects(st, projects, F) ==
    IF Unreachable
    THEN [st |-> Called(st, <<ReadEntry("listProjects", TRUE)>>, FALSE), data |-> << >>]
    ELSE IF Fails(st, F)
    THEN [st |-> Called(st, <<ReadEntry("listProjects", TRUE)>>, TRUE), data |-> << >>]
    ELSE [st |-> Called(st, <<ReadEntry("listProjects", FALSE)>>, FALSE), data |-> projects]

\* x-pagination-total-pages of the source's answers
TotalPages(tasks) == (Len(tasks) + PageSize - 1) \div PageSize

\* response.data of the request for page `page`
Page(tasks, page) ==
    SubSeq(tasks, (page - 1) * PageSize + 1,
           IF page * PageSize < Len(tasks) THEN page * PageSize ELSE Len(tasks))

\* the while loop of getVikunjaTasks from page `page` on
RECURSIVE RequestPages(_, _, _, _, _)
RequestPages(st, allTasks, tasks, page, F) ==
    IF Unreachable \/ Fails(st, F)
    THEN [st |-> Called(st, <<PageEntry(page, TRUE)>>, ~Unreachable),
          data |-> allTasks, failed |-> TRUE]
    ELSE LET got == Called(st, <<PageEntry(page, FALSE)>>, FALSE)
             all == allTasks \o Page(tasks, page)
             hasMorePages == page < TotalPages(tasks)
         IN IF hasMorePages
            THEN RequestPages(got, all, tasks, page + 1, F)
            ELSE [st |-> got, data |-> all, failed |-> FALSE]

\* the pages fetched before a request threw, returned
getVikunjaTasksKeepingPages(st, tasks, F) ==
    LET r == RequestPages(st, << >>, tasks, 1, F)
    IN [st |-> r.st, data |-> SelectSeq(r.data, HasDueDate)]

\* getVikunjaTasks(): the tasks of all pages that have a due date, [] when a
\* request throws
getVikunjaTasks(st, tasks, F) ==
    LET r == RequestPages(st, << >>, tasks, 1, F)
    IN [st |-> r.st, data |-> IF r.failed THEN << >> ELSE SelectSeq(r.data, HasDueDate)]

\* getManagedCalendars(): the calendars bearing the prefix, [] when the request
\* throws
getManagedCalendars(st, F) ==
    IF Fails(st, F)
    THEN [st |-> Called(st, <<ReadEntry("listCalendars", TRUE)>>, TRUE), data |-> << >>]
    ELSE [st |-> Called(st, <<ReadEntry("listCalendars", FALSE)>>, FALSE),
          data |-> ManagedCalendars(st.cals)]

\* Configuration & Validation: process.exit(1) when a tested option is unset
Boot ==
    /\ pc = "boot"
    /\ pc' = IF Validated \subseteq config THEN "start" ELSE "exit"
    /\ UNCHANGED <<config, tz, builtEvent, source, gCalendars, gEvents, nextId, now, vikunjaProjects,
                   vikunjaTasks, googleCalendars, allGoogleEvents, calls, failsLeft, history>>

\* Step 1: getVikunjaProjects(), getVikunjaTasks(), getManagedCalendars()
Fetch ==
    /\ pc = "start"
    /\ \E F \in FailSets(IF TotalPages(vTasks) > 1 THEN 2 + TotalPages(vTasks) ELSE 3) :
        LET projects == getVikunjaProjects(Cur, vProjects, F)
            tasks == getVikunjaTasks(projects.st, vTasks, F)
            calendars == getManagedCalendars(tasks.st, F)
        IN /\ vikunjaProjects' = projects.data
           /\ vikunjaTasks' = tasks.data
           /\ googleCalendars' = calendars.data
           /\ calls' = calendars.st.log
           /\ failsLeft' = failsLeft - calendars.st.inj
    /\ pc' = "provision"
    /\ UNCHANGED <<config, tz, builtEvent, source, gCalendars, gEvents, nextId, now, allGoogleEvents,
                   history>>

Provision ==
    /\ pc = "provision"
    /\ \E F \in FailSets(Len(vikunjaProjects)) :
        Apply(ReconcileCalendars(Cur, vikunjaProjects, 1, F))
    /\ pc' = "share"
    /\ UNCHANGED <<config, tz, builtEvent, source, now, vikunjaProjects, vikunjaTasks, history>>

Share ==
    /\ pc = "share"
    /\ \E F \in FailSets(2 * Len(googleCalendars)) : Apply(VerifyPermissions(Cur, 1, F))
    /\ pc' = "index"
    /\ UNCHANGED <<config, tz, builtEvent, source, now, vikunjaProjects, vikunjaTasks, history>>

\* the Map of an earlier cycle, kept
KeptMap == allGoogleEvents

\* const allGoogleEvents = new Map()
NewMap == << >>

Index ==
    /\ pc = "index"
    /\ \E F \in FailSets(Len(googleCalendars)) :
        Apply(ListAllEvents([Cur EXCEPT !.idx = NewMap], 1, F))
    /\ pc' = "diff"
    /\ UNCHANGED <<config, tz, builtEvent, source, now, vikunjaProjects, vikunjaTasks, history>>

Diff ==
    /\ pc = "diff"
    /\ \E F \in FailSets(2 * Len(vikunjaTasks)), code \in ErrorCodes :
        Apply(SyncTasks(Cur, Uncompleted(vikunjaTasks), vikunjaProjects, 1, F, code))
    /\ pc' = "cleanup"
    /\ UNCHANGED <<config, tz, builtEvent, source, now, vikunjaProjects, vikunjaTasks, history>>

Clean ==
    /\ pc = "cleanup"
    /\ \E F \in FailSets(Len(allGoogleEvents)), code \in ErrorCodes :
        Apply(CleanUp(Cur, Uncompleted(vikunjaTasks), 1, F, code))
    /\ pc' = "done"
    /\ UNCHANGED <<config, tz, builtEvent, source, now, vikunjaProjects, vikunjaTasks, history>>

\* The process is started again by its scheduler, the task source unchanged.  What
\* the variables of run() held is not reset here: run() assigns each before it
\* reads it.
NextCycle ==
    /\ pc = "done"
    /\ cycle < MaxCycles
    /\ pc' = "start"
    /\ cycle' = cycle + 1
    /\ events0' = gEvents
    /\ cals0' = gCalendars
    /\ nextId0' = nextId
    /\ prevCalls' = calls
    /\ calls' = << >>
    /\ UNCHANGED <<config, tz, builtEvent, source, gCalendars, gEvents, nextId, now, failsLeft,
                   vikunjaProjects, vikunjaTasks, googleCalendars, allGoogleEvents>>

\* one run of the process
Next == Fetch \/ Provision \/ Share \/ Index \/ Diff \/ Clean

Spec == Init /\ [][Next]_vars

\* runs in succession
NextTwo == Fetch \/ Provision \/ Share \/ Index \/ Diff \/ Clean \/ NextCycle

SpecTwo == Init /\ [][NextTwo]_vars

\* the process from its start, one run
NextBoot == Boot \/ Fetch \/ Provision \/ Share \/ Index \/ Diff \/ Clean

SpecBoot == InitBoot /\ [][NextBoot]_vars

\* ------------------------------------------------------------------ buildGoogleEvent alone
TimeZones == (0 - MaxOffset)..MaxOffset

\* due at midnight, at noon and in the last hour of a day, UTC
DueInstants == {24 * d + h : d \in 1..MaxDay, h \in {0, 12, 23}}

\* the tasks buildGoogleEvent is applied to
PayloadTasks ==
    [id : 1..3, title : {"t1", "t2"}, description : {"null", "d"}, due_date : DueInstants,
     done : {FALSE}, project_id : {1}, project : {NoProject}, updated_at : {1}]

InitPayload ==
    /\ config = Options
    /\ tz \in TimeZones
    /\ builtEvent = << >>
    /\ vProjects = << >>
    /\ vTasks \in {<<task>> : task \in PayloadTasks}
    /\ gCalendars = << >>
    /\ gEvents = << >>
    /\ nextId = 21
    /\ now = 2
    /\ pc = "build"
    /\ vikunjaProjects = << >>
    /\ vikunjaTasks = << >>
    /\ googleCalendars = << >>
    /\ allGoogleEvents = << >>
    /\ calls = << >>
    /\ failsLeft = 0
    /\ cycle = 1
    /\ events0 = << >>
    /\ cals0 = << >>
    /\ nextId0 = 21
    /\ prevCalls = << >>

\* const eventPayload = buildGoogleEvent(task)
BuildPayload ==
    /\ pc = "build"
    /\ builtEvent' = buildGoogleEvent(vTasks[1])
    /\ pc' = "built"
    /\ UNCHANGED <<config, tz, source, gCalendars, gEvents, nextId, now, vikunjaProjects,
                   vikunjaTasks, googleCalendars, allGoogleEvents, calls, failsLeft, history>>

SpecPayload == InitPayload /\ [][BuildPayload]_vars

\* ------------------------------------------------------------------ vocabulary of the properties
AllOk(log) == \A k \in 1..Len(log) : log[k].code = 0

EventOps == {"createEvent", "updateEvent", "deleteEvent"}

TaskKeys == {"1", "2"}

\* the tasks of the source that are to be projected: a due date and not done
Eligible == SelectSeq(vTasks, LAMBDA task : task.due_date # 0 /\ ~task.done)

ListedOnce(task) == Cardinality({k \in 1..Len(vTasks) : vTasks[k].id = task.id}) = 1

ManagedIds == {c.id : c \in {x \in Range(gCalendars) : StartsWithPrefix(x.summary)}}

\* the events of the managed calendars that carry a task key
Carriers(events, key) ==
    {e \in Range(events) : e.vikunjaTaskId = key /\ e.calendarId \in ManagedIds}

\* the sink's calendars that bear the name of the task's project
ProjectCalendarIds(task) ==
    LET title == ResolveProject(task, vProjects)
    IN IF title = NoProject THEN {}
       ELSE {c.id : c \in {x \in Range(gCalendars) : x.summary = CalendarName(title)}}

OwnEvents(task, calendarId) ==
    {e \in Range(gEvents) : e.calendarId = calendarId /\ e.vikunjaTaskId = String(task.id)}

Matches(e, task) ==
    /\ e.summary = task.title
    /\ e.description.text = (IF task.description = "null" THEN "" ELSE task.description)
    /\ e.description.link = <<task.project_id, task.id>>
    /\ e.start = FormatDate(task.due_date)
    /\ e.end = FormatDate(task.due_date) + 1

Issued(op, key) == \E k \in 1..Len(calls) : calls[k].op = op /\ calls[k].key = key

ReadOk(op, id) == \E k \in 1..Len(calls) : calls[k].op = op /\ calls[k].id = id /\ calls[k].code = 0

C2_Idempotence ==
    (cycle = 2 /\ pc = "done" /\ AllOk(prevCalls) /\ AllOk(calls)) =>
        \A k \in 1..Len(calls) : calls[k].op \notin MutatingOps

\* ------------------------------------------------------------------ C3
\* C3: at the end of a cycle in which every remote call succeeded, no task key is
\* carried by two live events of the managed calendars.
C3_Correspondence ==
    (pc = "done" /\ AllOk(calls)) =>
        \A key \in TaskKeys : Cardinality(Carriers(gEvents, key)) <= 1

\* ------------------------------------------------------------------ C4
\* the event is the one synced event of its task, and the cycle read the calendar
\* list and the events of the event's calendar
SyncedAndRead(e) ==
    /\ e.vikunjaTaskId # ""
    /\ Carriers(events0, e.vikunjaTaskId) = {e}
    /\ ReadOk("listCalendars", 0)
    /\ ReadOk("listEvents", e.calendarId)

\* C4: when the one synced event of a task exists and the source no longer lists
\* the task as uncompleted with a due date (it is done, has no due date, or is
\* gone), the cycle issues a delete for that event and no create for the task.
C4_CompletionRemovesEvent ==
    pc = "done" =>
        \A e \in Range(events0) :
            (SyncedAndRead(e)
             /\ \A k \in 1..Len(Eligible) : String(Eligible[k].id) # e.vikunjaTaskId)
            => /\ \E k \in 1..Len(calls) :
                    /\ calls[k].op = "deleteEvent"
                    /\ calls[k].id = e.id
                    /\ calls[k].key = e.vikunjaTaskId
               /\ ~Issued("createEvent", e.vikunjaTaskId)

\* the source lists the task as done, and its event has been deleted
C4_Witness ==
    /\ pc = "done"
    /\ \E e \in Range(events0) :
        /\ SyncedAndRead(e)
        /\ \E k \in 1..Len(vTasks) : String(vTasks[k].id) = e.vikunjaTaskId /\ vTasks[k].done
        /\ \E k \in 1..Len(calls) :
            calls[k].op = "deleteEvent" /\ calls[k].id = e.id /\ calls[k].code = 0
        /\ e \notin Range(gEvents)

\* ------------------------------------------------------------------ C5
\* the position in the in-memory list of the calendar the task is to be in, 0 when
\* the task is skipped
TargetOf(task) ==
    LET title == ResolveProject(task, vikunjaProjects)
    IN IF title = NoProject THEN 0
       ELSE FindCalendar(googleCalendars, CalendarName(title))

\* C5: when the one synced event of an uncompleted task lies in another calendar
\* than the task's target calendar, the cycle issues a delete for it and a create
\* in the target calendar, and events of the task are never left in both.
C5_MoveOnProjectChange ==
    pc \in {"cleanup", "done"} =>
        \A k \in 1..Len(Uncompleted(vikunjaTasks)) : \A e \in Range(events0) :
            LET task == Uncompleted(vikunjaTasks)[k]
                key == String(task.id)
            IN (/\ e.vikunjaTaskId = key
                /\ SyncedAndRead(e)
                /\ TargetOf(task) # 0
                /\ googleCalendars[TargetOf(task)].id # e.calendarId)
               => LET c2 == googleCalendars[TargetOf(task)].id
                  IN /\ \E j \in 1..Len(calls) :
                          calls[j].op = "deleteEvent" /\ calls[j].id = e.id
                     /\ \E j \in 1..Len(calls) :
                          calls[j].op = "createEvent" /\ calls[j].key = key /\ calls[j].id = c2
                     /\ \/ \A x \in Range(gEvents) :
                               ~(x.vikunjaTaskId = key /\ x.calendarId = e.calendarId)
                        \/ \A y \in Range(gEvents) :
                               ~(y.vikunjaTaskId = key /\ y.calendarId = c2)

\* ------------------------------------------------------------------ C6
\* the tasks of the diff pass whose indexed event lies in their target calendar
InPlace(task) ==
    /\ MapHas(allGoogleEvents, String(task.id))
    /\ TargetOf(task) # 0
    /\ allGoogleEvents[MapIndex(allGoogleEvents, String(task.id))].val.calendarId
            = googleCalendars[TargetOf(task)].id

IndexedEvent(task) == allGoogleEvents[MapIndex(allGoogleEvents, String(task.id))].val

\* C6 as stated: for an uncompleted task whose indexed event lies in the target
\* calendar, an update is issued if and only if the task was modified strictly
\* later than the event.
C6_UpdateIffLater ==
    pc \in {"cleanup", "done"} =>
        \A k \in 1..Len(Uncompleted(vikunjaTasks)) :
            LET task == Uncompleted(vikunjaTasks)[k]
            IN InPlace(task) =>
                (Issued("updateEvent", String(task.id))
                    <=> task.updated_at > IndexedEvent(task).updated)

\* C6 as amended: ... if and only if the task was modified strictly later than the
\* event or the event's transparency is not "opaque"; with equal timestamps and an
\* opaque event no call is issued for the task.
C6_UpdateIffLaterOrNotOpaque ==
    pc \in {"cleanup", "done"} =>
        \A k \in 1..Len(Uncompleted(vikunjaTasks)) :
            LET task == Uncompleted(vikunjaTasks)[k]
                stale == \/ task.updated_at > IndexedEvent(task).updated
                         \/ IndexedEvent(task).transparency # "opaque"
            IN InPlace(task) =>
                /\ Issued("updateEvent", String(task.id)) <=> stale
                /\ ~stale => \A op \in EventOps : ~Issued(op, String(task.id))

\* an event that is not older than the task has been updated for its transparency
C6_Witness ==
    /\ pc = "done"
    /\ \E k \in 1..Len(Uncompleted(vikunjaTasks)) :
        LET task == Uncompleted(vikunjaTasks)[k]
        IN /\ InPlace(task)
           /\ task.updated_at <= IndexedEvent(task).updated
           /\ IndexedEvent(task).transparency # "opaque"
           /\ \E j \in 1..Len(calls) :
                /\ calls[j].op = "updateEvent"
                /\ calls[j].id = IndexedEvent(task).id
                /\ calls[j].code = 0

\* ------------------------------------------------------------------ C7
\* the task is skipped: its project is not resolved, or no calendar of the
\* in-memory list bears the project's name
Skipped(task) ==
    LET title == ResolveProject(task, vikunjaProjects)
    IN \/ title = NoProject
       \/ \A j \in 1..Len(googleCalendars) : googleCalendars[j].summary # CalendarName(title)

\* C7: for a skipped task the cycle issues no create, update or delete, and every
\* event that carried the task's identifier when the cycle began is still live
\* after the cleanup pass.
C7_SkippedTaskUntouched ==
    pc \in {"cleanup", "done"} =>
        \A k \in 1..Len(Uncompleted(vikunjaTasks)) :
            LET task == Uncompleted(vikunjaTasks)[k]
            IN Skipped(task) =>
                /\ \A op \in EventOps : ~Issued(op, String(task.id))
                /\ \A e \in Range(events0) :
                        e.vikunjaTaskId = String(task.id) => e \in Range(gEvents)

\* a skipped task whose event was indexed, after the cleanup pass
C7_Witness ==
    /\ pc = "done"
    /\ \E k \in 1..Len(Uncompleted(vikunjaTasks)) :
        /\ Skipped(Uncompleted(vikunjaTasks)[k])
        /\ MapHas(allGoogleEvents, String(Uncompleted(vikunjaTasks)[k].id))
    /\ \E j \in 1..Len(calls) : calls[j].op = "deleteEvent" /\ calls[j].phase = "cleanup"

\* ------------------------------------------------------------------ C8
\* C8: between any two mutating calls of a cycle, failed or not, there is a delay.
C8_PacingBetweenMutations ==
    \A a, b \in 1..Len(calls) :
        (a < b /\ calls[a].op \in MutatingOps /\ calls[b].op \in MutatingOps)
            => \E m \in (a + 1)..(b - 1) : calls[m].op = "delay"

\* ------------------------------------------------------------------ C9
\* the phase a call belongs to: provisioning (create calendar, share), event
\* listing, diff pass, cleanup
PhaseRank(c) ==
    CASE c.op \in {"createCalendar", "aclList", "aclInsert"} -> 1
      [] c.op = "listEvents" -> 2
      [] c.op \in EventOps /\ c.phase = "diff" -> 3
      [] c.op \in EventOps /\ c.phase = "cleanup" -> 4
      [] OTHER -> 0

\* C9: the calls of a cycle come phase by phase: no provisioning call after an
\* event listing, no event listing after a call of the diff pass, no call of the
\* diff pass after a cleanup delete.
C9_PhaseOrder ==
    \A a, b \in 1..Len(calls) :
        (a < b /\ PhaseRank(calls[a]) # 0 /\ PhaseRank(calls[b]) # 0)
            => PhaseRank(calls[a]) <= PhaseRank(calls[b])

\* a cycle that made calls of all four phases
C9_Witness ==
    /\ pc = "done"
    /\ \A r \in 1..4 : \E k \in 1..Len(calls) : PhaseRank(calls[k]) = r
    /\ \E k \in 1..Len(calls) : calls[k].op = "createCalendar"

\* ------------------------------------------------------------------ C10
\* The rest of a cycle from the state after the fetch, as the phases compute it,
\* for given sets of failing calls: Fs names, phase by phase, the calls that fail.
NoFails == [provision |-> {}, share |-> {}, index |-> {}, diff |-> {}, cleanup |-> {}]

RestOfCycle(st, projects, tasks, Fs, code) ==
    LET provisioned == ReconcileCalendars([st EXCEPT !.n = 0], projects, 1, Fs.provision)
        shared == VerifyPermissions([provisioned EXCEPT !.n = 0], 1, Fs.share)
        indexed == ListAllEvents([shared EXCEPT !.n = 0, !.idx = NewMap], 1, Fs.index)
        synced == SyncTasks([indexed EXCEPT !.n = 0], Uncompleted(tasks), projects, 1,
                            Fs.diff, code)
    IN CleanUp([synced EXCEPT !.n = 0], Uncompleted(tasks), 1, Fs.cleanup, code)

\* the calls of a phase, without the delays
CallsOfPhase(log, phase) == SelectSeq(log, LAMBDA c : c.phase = phase)

\* the task keys that depend on the item of a failed call: the tasks of the
\* project whose calendar could not be created
DependentKeys(f) ==
    IF f.op # "createCalendar" THEN {}
    ELSE {String(vikunjaTasks[k].id) : k \in
            {j \in 1..Len(vikunjaTasks) :
                /\ ResolveProject(vikunjaTasks[j], vikunjaProjects) # NoProject
                /\ CalendarName(ResolveProject(vikunjaTasks[j], vikunjaProjects)) = f.key}}

\* what a call asks of the sink: the operation, its item, its outcome, and the
\* object it names (an object of the sink by its id, the calendar of a create by
\* its name)
Asked(c, run) ==
    [op |-> c.op, phase |-> c.phase, key |-> c.key, code |-> c.code,
     id |-> IF c.op = "createEvent" \/ c.id >= nextId THEN 0 ELSE c.id,
     name |-> IF c.op = "createEvent"
              THEN LET j == FindIndex({k \in 1..Len(run.cals) : run.cals[k].id = c.id})
                   IN IF j = 0 THEN "" ELSE run.cals[j].summary
              ELSE ""]

\* the calls of a run for the items other than the item of call f
OtherCalls(run, f) ==
    LET same == {f.key} \cup DependentKeys(f)
        others == SelectSeq(run.log, LAMBDA c : c.op # "delay" /\ c.key \notin same)
    IN [j \in 1..Len(others) |-> Asked(others[j], run)]

C11_IdempotentDelete ==
    \A k \in 1..Len(calls) :
        (calls[k].op = "deleteEvent" /\ calls[k].code \in {404, 410}) => ~calls[k].logged

\* ------------------------------------------------------------------ C12
ReadFailed(op) == \E k \in 1..Len(calls) : calls[k].op = op /\ calls[k].code # 0

\* the cleanup pass called delete for the event
CleanupDeletes(eventId) ==
    \E k \in 1..Len(calls) :
        /\ calls[k].op = "deleteEvent" /\ calls[k].phase = "cleanup" /\ calls[k].id = eventId
        /\ calls[k].code = 0 => \A e \in Range(gEvents) : e.id # eventId

\* C12 as stated: when the fetch of the projects or the fetch of the tasks failed,
\* the failed collection is empty, the cycle runs to its end and the cleanup pass
\* deletes every event of the event index.
C12_SourceReadFailure ==
    /\ (pc # "start" /\ ReadFailed("listProjects")) => vikunjaProjects = << >>
    /\ (pc # "start" /\ ReadFailed("listTasks")) => vikunjaTasks = << >>
    /\ (pc = "done" /\ (ReadFailed("listProjects") \/ ReadFailed("listTasks"))) =>
           \A j \in 1..Len(allGoogleEvents) : CleanupDeletes(allGoogleEvents[j].val.id)

\* C12 as amended: a failed fetch leaves its collection empty and the cycle runs
\* on; after a failed fetch of the tasks the cleanup pass deletes every event of the
\* event index; after a failed fetch of the projects no calendar is created and
\* the cleanup pass deletes the indexed events of the tasks that are not among the
\* uncompleted tasks fetched, and no others.
C12_TaskReadFailureEmptiesTheSink ==
    /\ (pc # "start" /\ ReadFailed("listProjects")) => vikunjaProjects = << >>
    /\ (pc # "start" /\ ReadFailed("listTasks")) => vikunjaTasks = << >>
    /\ (pc = "done" /\ ReadFailed("listTasks")) =>
           \A j \in 1..Len(allGoogleEvents) : CleanupDeletes(allGoogleEvents[j].val.id)
    /\ (pc = "done" /\ ReadFailed("listProjects")) =>
           /\ \A k \in 1..Len(calls) : calls[k].op # "createCalendar"
           /\ \A j \in 1..Len(allGoogleEvents) :
                  CleanupDeletes(allGoogleEvents[j].val.id)
                      <=> ~TaskMapHas(Uncompleted(vikunjaTasks), allGoogleEvents[j].key)

\* the fetch of the tasks failed and the cleanup pass deleted the event of a task
\* that is still to be projected
C12_Witness ==
    /\ pc = "done" /\ ReadFailed("listTasks")
    /\ \E j \in 1..Len(allGoogleEvents) : \E k \in 1..Len(Eligible) :
        /\ allGoogleEvents[j].key = String(Eligible[k].id)
        /\ CleanupDeletes(allGoogleEvents[j].val.id)

\* ------------------------------------------------------------------ C13
\* C13: when one of the recognized options (task-source base URL, bearer token,
\* sink credential reference, calendar name prefix, sharing principal, frontend
\* base URL) is unset, the process exits before any cycle starts: it never leaves
\* the startup and makes no call to the task source or to the calendar sink.
C13_FatalOnMissingConfiguration ==
    config # Options => (pc \in {"boot", "exit"} /\ calls = << >>)

\* ------------------------------------------------------------------ C14
\* the cycle a process without any memory runs on the source and on the sink as
\* this cycle found them, every call served
FreshCycle ==
    LET st0 == [cals |-> cals0, events |-> events0, nextId |-> nextId0, now |-> now,
                gc |-> << >>, idx |-> << >>, log |-> << >>, n |-> 0, inj |-> 0]
        projects == getVikunjaProjects(st0, vProjects, {})
        tasks == getVikunjaTasks(projects.st, vTasks, {})
        calendars == getManagedCalendars(tasks.st, {})
        provisioned == ReconcileCalendars([calendars.st EXCEPT !.gc = calendars.data],
                                          projects.data, 1, {})
        shared == VerifyPermissions(provisioned, 1, {})
        indexed == ListAllEvents(shared, 1, {})
        synced == SyncTasks(indexed, Uncompleted(tasks.data), projects.data, 1, {}, 500)
    IN CleanUp(synced, Uncompleted(tasks.data), 1, {}, 500)

\* C14: the calls of a cycle are a function of the source and of the sink as the
\* cycle reads them: whatever earlier cycles did, a cycle whose calls are all
\* served issues the calls that a process started afresh on the same source and
\* sink issues, in the same order.
C14_Statelessness ==
    (pc = "done" /\ AllOk(calls)) => calls = FreshCycle.log

\* a second cycle that changes the sink, after a first cycle that did so too and
\* left an event index behind
C14_Witness ==
    /\ cycle = 2 /\ pc = "done" /\ AllOk(calls)
    /\ \E k \in 1..Len(prevCalls) : prevCalls[k].op \in MutatingOps
    /\ \E k \in 1..Len(calls) : calls[k].op \in EventOps
    /\ events0 # << >>

\* ------------------------------------------------------------------ C15
ShareCalls == SelectSeq(calls, LAMBDA c : c.phase = "share")

\* the sink's calendar has a rule for the principal
SharedIn(cals, calendarId) == \E c \in Range(cals) : c.id = calendarId /\ c.shared

\* C15: after the sharing phase of a cycle whose share calls all succeeded, every
\* calendar of googleCalendars, found or newly created, has a rule for the
\* principal; an insert was issued for a calendar only if it had no such rule when
\* the cycle began, and once; running the phase again issues no insert.
C15_Sharing ==
    (pc \in {"index", "diff", "cleanup", "done"} /\ AllOk(ShareCalls)) =>
        /\ \A j \in 1..Len(googleCalendars) : SharedIn(gCalendars, googleCalendars[j].id)
        /\ \A k \in 1..Len(calls) : calls[k].op = "aclInsert" =>
               /\ ~SharedIn(cals0, calls[k].id)
               /\ \E j \in 1..Len(googleCalendars) : googleCalendars[j].id = calls[k].id
               /\ \A h \in 1..Len(calls) :
                      (calls[h].op = "aclInsert" /\ calls[h].id = calls[k].id) => h = k
        /\ \A c \in Range(VerifyPermissions([Cur EXCEPT !.log = << >>], 1, {}).log) :
               c.op # "aclInsert"

\* the phase found one calendar shared and granted the principal access to a
\* calendar the cycle created
C15_Witness ==
    /\ pc = "index" /\ AllOk(ShareCalls)
    /\ \E j \in 1..Len(googleCalendars) :
        /\ SharedIn(cals0, googleCalendars[j].id)
        /\ \A k \in 1..Len(calls) :
               calls[k].op = "aclInsert" => calls[k].id # googleCalendars[j].id
    /\ \E k \in 1..Len(calls) :
        /\ calls[k].op = "aclInsert"
        /\ \A c \in Range(cals0) : c.id # calls[k].id

\* ------------------------------------------------------------------ C16
\* the calls run() makes
CallOps ==
    {"listProjects", "listTasks", "listCalendars", "createCalendar", "aclList", "aclInsert",
     "listEvents", "createEvent", "updateEvent", "deleteEvent", "delay"}

\* C16: no step of any cycle removes a calendar from the sink or calls anything
\* but the reads, the creations, the grant and the event calls: the calendars of
\* the sink stay, in their order, and new ones are added after them.
C16_CalendarsNeverDeleted ==
    [][/\ Len(gCalendars') >= Len(gCalendars)
       /\ \A j \in 1..Len(gCalendars) :
              /\ gCalendars'[j].id = gCalendars[j].id
              /\ gCalendars'[j].summary = gCalendars[j].summary
       /\ \A k \in 1..Len(calls') : calls'[k].op \in CallOps]_vars

\* after two cycles a managed calendar is still there although the source lists
\* no project of its name
C16_Witness ==
    /\ cycle = 2 /\ pc = "done"
    /\ \E c \in Range(gCalendars) :
        /\ StartsWithPrefix(c.summary)
        /\ \A j \in 1..Len(vProjects) : CalendarName(vProjects[j].title) # c.summary
        /\ \E k \in 1..Len(prevCalls) : prevCalls[k].op = "listEvents" /\ prevCalls[k].id = c.id

\* ------------------------------------------------------------------ C17
\* the requests getVikunjaTasks made, in order
PageRequests == SelectSeq(calls, LAMBDA c : c.op = "listTasks")

\* the page count the source reports, and 1 when it reports none: the count is
\* known from the answer to the first request
LastPage == IF TotalPages(vTasks) > 1 THEN TotalPages(vTasks) ELSE 1

\* C17: getVikunjaTasks requests page 1, 2, ... in order, each once.  When every
\* request is served it stops at the page count the source reports and returns
\* the tasks of the source that have a due date, in the source's order; when a
\* request fails it makes no further request and returns the empty list.
C17_TaskListing ==
    pc \in {"provision", "share", "index", "diff", "cleanup", "done"} =>
        /\ \A p \in 1..Len(PageRequests) : PageRequests[p].id = p
        /\ \A p \in 1..(Len(PageRequests) - 1) : PageRequests[p].code = 0
        /\ Len(PageRequests) \in 1..LastPage
        /\ AllOk(PageRequests) =>
               /\ Len(PageRequests) = LastPage
               /\ vikunjaTasks = SelectSeq(vTasks, HasDueDate)
        /\ ~AllOk(PageRequests) => vikunjaTasks = << >>

\* the request for the second page failed after the first page had brought a
\* task with a due date
C17_Witness ==
    /\ pc = "provision"
    /\ Len(PageRequests) = 2 /\ PageRequests[2].code # 0
    /\ HasDueDate(vTasks[1])
    /\ vikunjaTasks = << >>

\* ------------------------------------------------------------------ C18
\* the calls an iteration added to the log, delays left out: what was called on
\* which event or calendar, for which task
Decided(before, after) ==
    LET added == SelectSeq(SubSeq(after.log, Len(before.log) + 1, Len(after.log)),
                           LAMBDA c : c.op # "delay")
    IN [j \in 1..Len(added) |-> [op |-> added[j].op, id |-> added[j].id, key |-> added[j].key]]

\* the outcome the precedence prescribes for a task whose target calendar is
\* resolved
Prescribed(st, task, targetId) ==
    LET key == String(task.id)
        found == MapIndex(st.idx, key)
        e == st.idx[found].val
    IN IF found = 0
       THEN <<[op |-> "createEvent", id |-> targetId, key |-> key]>>
       ELSE IF e.calendarId # targetId
       THEN <<[op |-> "deleteEvent", id |-> e.id, key |-> key],
              [op |-> "createEvent", id |-> targetId, key |-> key]>>
       ELSE IF task.updated_at > e.updated \/ e.transparency # "opaque"
       THEN <<[op |-> "updateEvent", id |-> e.id, key |-> key]>>
       ELSE << >>

\* C18: in the diff pass, the iteration for an uncompleted task whose target
\* calendar is resolved makes, whether or not its calls are served, exactly the
\* calls of one outcome: a create when no event is indexed; a delete of the
\* indexed event and then a create, and no update, when that event is in another
\* calendar, stale or not; an update when it is in the target calendar and stale;
\* nothing otherwise.
C18_DecisionPrecedence ==
    pc = "diff" =>
        \A k \in 1..Len(Uncompleted(vikunjaTasks)) :
            LET tasks == Uncompleted(vikunjaTasks)
                before == SyncTasks(Cur, SubSeq(tasks, 1, k - 1), vikunjaProjects, 1, {}, 500)
                title == ResolveProject(tasks[k], vikunjaProjects)
                target == IF title = NoProject THEN 0
                          ELSE FindCalendar(googleCalendars, CalendarName(title))
            IN target # 0 =>
                \A F \in {{}, {1}, {2}} : \A code \in ErrorCodes :
                    Decided(before, SyncTask([before EXCEPT !.n = 0], tasks[k],
                                             vikunjaProjects, F, code))
                        = Prescribed(before, tasks[k], googleCalendars[target].id)

\* the diff pass moved an event that was stale as well: it was deleted, an event
\* was created in the target calendar, and no update was made
C18_Witness ==
    /\ pc = "cleanup"
    /\ \E k \in 1..Len(Uncompleted(vikunjaTasks)) :
        LET task == Uncompleted(vikunjaTasks)[k]
            found == MapIndex(allGoogleEvents, String(task.id))
            title == ResolveProject(task, vikunjaProjects)
            target == IF title = NoProject THEN 0
                      ELSE FindCalendar(googleCalendars, CalendarName(title))
        IN /\ found # 0 /\ target # 0
           /\ allGoogleEvents[found].val.calendarId # googleCalendars[target].id
           /\ allGoogleEvents[found].val.transparency # "opaque"
           /\ \E a, b \in 1..Len(calls) :
                /\ a < b
                /\ calls[a].op = "deleteEvent" /\ calls[a].id = allGoogleEvents[found].val.id
                /\ calls[b].op = "createEvent" /\ calls[b].key = String(task.id)
           /\ ~Issued("updateEvent", String(task.id))

\* ------------------------------------------------------------------ C19
\* the create-calendar calls an iteration of the provisioning added to the log
Creations(before, after) ==
    SelectSeq(SubSeq(after.log, Len(before.log) + 1, Len(after.log)),
              LAMBDA c : c.op # "delay")

\* the iteration for a project found no calendar of its name in the list, called
\* create once and, when the call was served, appended the new calendar
CreatedFor(before, after, name) ==
    /\ Len(Creations(before, after)) = 1
    /\ Creations(before, after)[1].op = "createCalendar"
    /\ Creations(before, after)[1].key = name
    /\ IF Creations(before, after)[1].code = 0
       THEN /\ after.gc = Append(before.gc, [id |-> Creations(before, after)[1].id,
                                             summary |-> name])
            /\ \E c \in Range(after.cals) :
                   c.id = Creations(before, after)[1].id /\ c.summary = name
       ELSE after.gc = before.gc /\ after.cals = before.cals

\* C19: in the provisioning, whichever create fails, the iteration for a project
\* calls create if and only if no calendar of googleCalendars has the project's
\* calendar name at that moment, and a calendar created is appended to the list;
\* so a name is created at most once with success in a cycle, the cycle lists the
\* calendars once, and the diff pass creates the event of a task of the project in
\* the calendar the cycle created.
C19_Provisioning ==
    /\ pc = "provision" =>
        \A F \in {{}} \cup {{p} : p \in 1..Len(vikunjaProjects)} :
            \A k \in 1..Len(vikunjaProjects) :
                LET before == ReconcileCalendars(Cur, SubSeq(vikunjaProjects, 1, k - 1), 1, F)
                    after == ReconcileCalendars(before, <<vikunjaProjects[k]>>, 1, F)
                    name == CalendarName(vikunjaProjects[k].title)
                IN IF \E c \in Range(before.gc) : c.summary = name
                   THEN after = before
                   ELSE CreatedFor(before, after, name)
    /\ pc = "done" =>
        /\ \A a, b \in 1..Len(calls) :
               (/\ calls[a].op = "createCalendar" /\ calls[b].op = "createCalendar"
                /\ calls[a].key = calls[b].key /\ calls[a].code = 0 /\ calls[b].code = 0)
                   => a = b
        /\ Cardinality({k \in 1..Len(calls) : calls[k].op = "listCalendars"}) = 1
        /\ \A k \in 1..Len(calls) : \A j \in 1..Len(Uncompleted(vikunjaTasks)) :
               LET task == Uncompleted(vikunjaTasks)[j]
                   title == ResolveProject(task, vikunjaProjects)
               IN (/\ calls[k].op = "createCalendar" /\ calls[k].code = 0
                   /\ title # NoProject /\ calls[k].key = CalendarName(title)
                   /\ ~MapHas(allGoogleEvents, String(task.id)))
                      => \E h \in 1..Len(calls) :
                             /\ calls[h].op = "createEvent" /\ calls[h].key = String(task.id)
                             /\ calls[h].id = calls[k].id

\* two projects of one title: the calendar was created once, for the first, and
\* the diff pass created a task's event in it
C19_Witness ==
    /\ pc = "done"
    /\ Len(vikunjaProjects) = 2 /\ vikunjaProjects[1].title = vikunjaProjects[2].title
    /\ \E k \in 1..Len(calls) :
        /\ calls[k].op = "createCalendar" /\ calls[k].code = 0
        /\ calls[k].key = CalendarName(vikunjaProjects[1].title)
        /\ \E h \in 1..Len(calls) : calls[h].op = "createEvent" /\ calls[h].id = calls[k].id
        /\ \A h \in 1..Len(calls) : calls[h].op = "createCalendar" => h = k

\* ------------------------------------------------------------------ C20
\* the creation of the calendar of that name was tried in the cycle of that log
\* and did not succeed
CreationFailed(log, name) ==
    /\ \E k \in 1..Len(log) : log[k].op = "createCalendar" /\ log[k].key = name /\ log[k].code # 0
    /\ \A k \in 1..Len(log) : (log[k].op = "createCalendar" /\ log[k].key = name) => log[k].code # 0

\* the uncompleted tasks fetched whose project has that calendar name
TasksOf(name) ==
    SelectSeq(Uncompleted(vikunjaTasks),
              LAMBDA task : /\ ResolveProject(task, vikunjaProjects) # NoProject
                            /\ CalendarName(ResolveProject(task, vikunjaProjects)) = name)

\* C20: when the creation of a project's calendar failed in a cycle, the cycle
\* makes no event call for the project's uncompleted tasks and still runs its later
\* phases; the next cycle, the source unchanged and read, calls create for the
\* still missing calendar again, and when that call is served it calls create for
\* the event of each of the project's uncompleted tasks in the new calendar, where
\* the event then is if the call was served.
C20_DeferredRetry ==
    \A name \in {CalendarName(t) : t \in Titles} :
        /\ (pc = "done" /\ CreationFailed(calls, name)) =>
               /\ \A j \in 1..Len(TasksOf(name)) : \A k \in 1..Len(calls) :
                      calls[k].op \in EventOps => calls[k].key # String(TasksOf(name)[j].id)
               /\ Len(SelectSeq(calls, LAMBDA c : c.op = "listEvents")) = Len(googleCalendars)
        /\ (/\ cycle = 2 /\ pc = "done" /\ CreationFailed(prevCalls, name)
            /\ \A c \in Range(cals0) : c.summary # name
            /\ ReadOk("listProjects", 0)) =>
               /\ \E k \in 1..Len(calls) : calls[k].op = "createCalendar" /\ calls[k].key = name
               /\ \A k \in 1..Len(calls) :
                      (calls[k].op = "createCalendar" /\ calls[k].key = name /\ calls[k].code = 0) =>
                          \A j \in 1..Len(TasksOf(name)) :
                              \E h \in 1..Len(calls) :
                                  /\ calls[h].op = "createEvent" /\ calls[h].id = calls[k].id
                                  /\ calls[h].key = String(TasksOf(name)[j].id)
                                  /\ calls[h].code = 0 =>
                                         \E e \in Range(gEvents) :
                                             /\ e.calendarId = calls[k].id
                                             /\ e.vikunjaTaskId = calls[h].key

\* the creation failed in the first cycle and was served in the second, which
\* created the event of a task of the project in the new calendar
C20_Witness ==
    /\ cycle = 2 /\ pc = "done"
    /\ \E name \in {CalendarName(t) : t \in Titles} :
        /\ CreationFailed(prevCalls, name)
        /\ Len(TasksOf(name)) > 0
        /\ \E k, h \in 1..Len(calls) :
            /\ calls[k].op = "createCalendar" /\ calls[k].key = name /\ calls[k].code = 0
            /\ calls[h].op = "createEvent" /\ calls[h].id = calls[k].id /\ calls[h].code = 0

\* ------------------------------------------------------------------ C21
\* position of the calendar in googleCalendars, 0 when it is not in the list
ListedAt(calendarId) ==
    FindIndex({j \in 1..Len(googleCalendars) : googleCalendars[j].id = calendarId})

\* the calendars of googleCalendars that held an event carrying the key when the
\* cycle began
CarrierCalendars(key) == {ListedAt(e.calendarId) : e \in Carriers(events0, key)} \ {0}

\* C21, first half: when events of two managed calendars carry one task key and
\* every call of the cycle is served, the index holds an event of the calendar
\* enumerated last among them.
C21_LaterCalendarWins ==
    (pc = "done" /\ AllOk(calls)) =>
        \A key \in TaskKeys :
            Cardinality(CarrierCalendars(key)) >= 2 =>
                /\ MapHas(allGoogleEvents, key)
                /\ \A p \in CarrierCalendars(key) :
                       p <= ListedAt(allGoogleEvents[MapIndex(allGoogleEvents, key)].val.calendarId)

\* C21: in that situation, for an uncompleted task with a resolved target
\* calendar, the index holds the event of the later-enumerated calendar and the
\* diff pass moves: every event carrying the key that lies in a calendar other
\* than the target is deleted.
C21_IndexCollision ==
    (pc = "done" /\ AllOk(calls)) =>
        \A k \in 1..Len(Uncompleted(vikunjaTasks)) :
            LET task == Uncompleted(vikunjaTasks)[k]
                key == String(task.id)
                title == ResolveProject(task, vikunjaProjects)
                target == IF title = NoProject THEN 0
                          ELSE FindCalendar(googleCalendars, CalendarName(title))
            IN (Cardinality(CarrierCalendars(key)) >= 2 /\ target # 0) =>
                /\ \A p \in CarrierCalendars(key) :
                       p <= ListedAt(allGoogleEvents[MapIndex(allGoogleEvents, key)].val.calendarId)
                /\ \A e \in Carriers(events0, key) :
                       e.calendarId # googleCalendars[target].id =>
                           \E h \in 1..Len(calls) :
                               calls[h].op = "deleteEvent" /\ calls[h].id = e.id

\* ------------------------------------------------------------------ C22
\* the identifiers of this cycle's task list: the uncompleted tasks with a due
\* date the source lists, none when the fetch of the tasks failed
ListedKeys ==
    IF ReadFailed("listTasks") THEN {}
    ELSE {String(Eligible[k].id) : k \in 1..Len(Eligible)}

CleanupCalls == SelectSeq(calls, LAMBDA c : c.op = "deleteEvent" /\ c.phase = "cleanup")

\* C22: the cleanup pass calls delete for an indexed event if and only if the key
\* it is indexed under is not the identifier of an uncompleted task with a due
\* date of this cycle's task list, once, and for no other event; the indexed
\* event of a task that was skipped or updated in the diff pass gets no cleanup
\* delete.
C22_CleanupIff ==
    pc = "done" =>
        /\ \A j \in 1..Len(allGoogleEvents) :
               (\E h \in 1..Len(CleanupCalls) : CleanupCalls[h].id = allGoogleEvents[j].val.id)
                   <=> allGoogleEvents[j].key \notin ListedKeys
        /\ \A h \in 1..Len(CleanupCalls) :
               /\ \E j \in 1..Len(allGoogleEvents) :
                      /\ allGoogleEvents[j].val.id = CleanupCalls[h].id
                      /\ allGoogleEvents[j].key = CleanupCalls[h].key
               /\ \A g \in 1..Len(CleanupCalls) : CleanupCalls[g].id = CleanupCalls[h].id => g = h
        /\ \A k \in 1..Len(Uncompleted(vikunjaTasks)) :
               LET task == Uncompleted(vikunjaTasks)[k]
               IN (MapHas(allGoogleEvents, String(task.id))
                   /\ (Skipped(task) \/ Issued("updateEvent", String(task.id)))) =>
                      \A h \in 1..Len(CleanupCalls) : CleanupCalls[h].id # IndexedEvent(task).id

\* one indexed event was updated in the diff pass and left alone by the cleanup
\* pass, which deleted another
C22_Witness ==
    /\ pc = "done"
    /\ \E j \in 1..Len(allGoogleEvents) :
        /\ Issued("updateEvent", allGoogleEvents[j].key)
        /\ \A h \in 1..Len(CleanupCalls) : CleanupCalls[h].id # allGoogleEvents[j].val.id
    /\ Len(CleanupCalls) > 0

\* ------------------------------------------------------------------ C23
\* the tasks of the source that are completed or have no due date
Ineligible == SelectSeq(vTasks, LAMBDA task : task.done \/ task.due_date = 0)

\* C23: no create-event or update-event call carries the identifier of a task of
\* the source that is completed or has no due date; each carries the identifier
\* of an uncompleted task with a due date.
C23_OnlyEligibleProjected ==
    \A k \in 1..Len(calls) :
        calls[k].op \in {"createEvent", "updateEvent"} =>
            /\ \A j \in 1..Len(Ineligible) : calls[k].key # String(Ineligible[j].id)
            /\ \E j \in 1..Len(Eligible) : calls[k].key = String(Eligible[j].id)

\* a finished cycle projected one task while the source also listed a completed
\* or undated task whose event was in the index
C23_Witness ==
    /\ pc = "done"
    /\ \E k \in 1..Len(calls) : calls[k].op \in {"createEvent", "updateEvent"} /\ calls[k].code = 0
    /\ \E j \in 1..Len(Ineligible) : MapHas(allGoogleEvents, String(Ineligible[j].id))

\* ------------------------------------------------------------------ C24
\* the calendar day, UTC, of the task's due date
DueDay(task) == task.due_date \div 24

\* the payload the claim describes, a function of the task alone
PayloadOf(task) ==
    /\ builtEvent.summary = task.title
    /\ builtEvent.start = DueDay(task)
    /\ builtEvent.end = builtEvent.start + 1
    /\ builtEvent.vikunjaTaskId = String(task.id)
    /\ builtEvent.transparency = "opaque"

\* C24: the payload buildGoogleEvent returns for a task has the task's title as
\* summary, the due date as start date, the day after the start date as end date,
\* the task's identifier as a string as private metadata and transparency
\* 'opaque', whatever else holds of the process.
C24_EventPayload == pc = "built" => PayloadOf(vTasks[1])

\* the same in a process that runs in UTC
C24_EventPayloadInUTC == (pc = "built" /\ tz = 0) => PayloadOf(vTasks[1])

\* ------------------------------------------------------------------ C25
\* C25: in every cycle, failing calls included, a task key that at most one live
\* event of the managed calendars carried when the cycle began is at no moment
\* carried by more than one.
C25_NoDuplicateGrowth ==
    \A key \in TaskKeys :
        Cardinality(Carriers(events0, key)) <= 1 => Cardinality(Carriers(gEvents, key)) <= 1

\* the same for the cycles in which the source lists no task twice and no listing
\* of the sink and no delete fails
C25_NoDuplicateGrowthWhenServed ==
    (/\ \A k \in 1..Len(calls) :
            calls[k].op \in {"listCalendars", "listEvents", "deleteEvent"} => calls[k].code = 0
     /\ \A a, b \in 1..Len(vTasks) : vTasks[a].id = vTasks[b].id => a = b) =>
        \A key \in TaskKeys :
            Cardinality(Carriers(events0, key)) <= 1 => Cardinality(Carriers(gEvents, key)) <= 1

\* ------------------------------------------------------------------ C26
\* no two managed calendars of the list bear the same name
UniqueNames(cals) ==
    \A a, b \in 1..Len(cals) :
        (StartsWithPrefix(cals[a].summary) /\ cals[a].summary = cals[b].summary) => a = b

\* C26: when no two managed calendars of the sink shared a name as the cycle
\* began, none do at any moment of the cycle, whichever reads fail.
C26_UniqueCalendarNames == UniqueNames(cals0) => UniqueNames(gCalendars)

\* the same for the cycles in which the listing of the calendars is served
C26_UniqueCalendarNamesWhenListed ==
    ~ReadFailed("listCalendars") => (UniqueNames(cals0) => UniqueNames(gCalendars))

\* ------------------------------------------------------------------ C27
\* the calls of the cycle that update or delete the event
MutationsOf(eventId) ==
    {k \in 1..Len(calls) : calls[k].op \in {"updateEvent", "deleteEvent"} /\ calls[k].id = eventId}

\* the calls of the cycle that create an event for the task key
CreatesOf(key) == {k \in 1..Len(calls) : calls[k].op = "createEvent" /\ calls[k].key = key}

OncePerItem ==
    /\ \A k \in 1..Len(calls) :
        calls[k].op \in {"updateEvent", "deleteEvent"} => Cardinality(MutationsOf(calls[k].id)) <= 1
    /\ \A key \in TaskKeys : Cardinality(CreatesOf(key)) <= 1

\* C27: within one cycle each remote event receives at most one update or delete
\* call and each task identifier at most one create call, whatever the task list,
\* one that holds the same task twice included.
C27_OneMutationPerItem == OncePerItem

\* the same for the cycles whose task list holds every task once
C27_OneMutationPerItemListedOnce ==
    (\A a, b \in 1..Len(vTasks) : vTasks[a].id = vTasks[b].id => a = b) => OncePerItem

\* ------------------------------------------------------------------ C28
\* the calendars of the sink whose name does not start with the prefix
ForeignCalendarIds == {c.id : c \in {x \in Range(gCalendars) : ~StartsWithPrefix(x.summary)}}

\* the events the cycle found that are not the program's: without a task
\* identifier, or in a calendar that is not managed
ForeignEvents ==
    {e \in Range(events0) : e.vikunjaTaskId = "" \/ e.calendarId \in ForeignCalendarIds}

Indexed(eventId) == \E j \in 1..Len(allGoogleEvents) : allGoogleEvents[j].val.id = eventId

Touched(eventId) ==
    \E k \in 1..Len(calls) : calls[k].op \in {"updateEvent", "deleteEvent"} /\ calls[k].id = eventId

\* C28: an event of a managed calendar that carries no task identifier is never
\* in the index and is never updated or deleted, and the events of a calendar
\* whose name does not start with the prefix are never listed, updated or
\* deleted: every such event stays in the sink as it was.
C28_ForeignEventsUntouched ==
    /\ \A e \in ForeignEvents : e \in Range(gEvents) /\ ~Touched(e.id) /\ ~Indexed(e.id)
    /\ \A k \in 1..Len(calls) : calls[k].op = "listEvents" => calls[k].id \notin ForeignCalendarIds

\* a finished cycle that listed a managed calendar holding an event without an
\* identifier, passed by a calendar 'X' holding an event that carries a task's
\* identifier, and created the event of that task
C28_Witness ==
    /\ pc = "done"
    /\ \E e \in ForeignEvents : e.vikunjaTaskId = "" /\ ReadOk("listEvents", e.calendarId)
    /\ \E e \in ForeignEvents :
        /\ e.calendarId \in ForeignCalendarIds
        /\ \E k \in 1..Len(calls) :
            calls[k].op = "createEvent" /\ calls[k].key = e.vikunjaTaskId /\ calls[k].code = 0

====
